---- MODULE Spec2Model ----
(***************************************************************************)
(* Model of the pairwise temporal-relation engine of riffmetrics.utils     *)
(* (compute_pairwise_relations and the Affirmation / Interruption          *)
(* predicates built on it), of the utterance merger (merge_utterances,    *)
(* visualize.meeting_timeline.join_utterances), of count_relations and of  *)
(* the bucketers (visualize.meetings.inc_bucket,                           *)
(* visualize.utterance_duration._distribute_durations,                     *)
(* visualize.zero_duration_distrib.get_zerolen_ut_distribution).           *)
(*                                                                         *)
(* Items are referred to by their position in ordered_items, which stands  *)
(* for the object identity the Python lists hold; the returned tuples of   *)
(* items are obtained from the positions with PairsOf.                     *)
(***************************************************************************)
EXTENDS Integers, Sequences, FiniteSets, TLC

\* ------------------------------------------------------------------------
\* Bounds of the model
\* ------------------------------------------------------------------------
\* longest ordered_items list given to compute_pairwise_relations
MaxItems == 3
\* longest utterance list given to get_meeting_affirmations / interruptions
MaxMeetingUts == 3
\* longest utterance list given to merge_utterances / join_utterances
MaxUts == 3

\* ------------------------------------------------------------------------
\* Program constants (times in milliseconds)
\* ------------------------------------------------------------------------
AFFIRMATION_MIN_OVERLAP == 250
AFFIRMATION_MAX_LENGTH == 2000

\* ------------------------------------------------------------------------
\* Input domains
\* ------------------------------------------------------------------------
\* opaque items of the generic engine (type variable T)
Vals == {"x", "y"}
\* relation / pruning predicates over the opaque items, as truth tables
Tables == [Vals \X Vals -> BOOLEAN]

Participants == {"A", "B"}
\* instants of a meeting, chosen around the affirmation thresholds
MeetingTimes == {0, 300, 600, 2500}
\* instants of one participant's utterances handed to the merger
MergeTimes == {0, 100, 150, 300}
\* min_gap values handed to the merger
MinGaps == {-100, 0, 10, 100}

Utterance(p, s, e) == [participant |-> p, start |-> s, end |-> e]

\* well-formed utterances (end >= start) over a set of instants
UtterancesOver(ps, ts) ==
    {u \in [participant : ps, start : ts, end : ts] : u.end >= u.start}

\* all sequences over S of length lo..hi
SeqsOf(S, lo, hi) == UNION {[1..n -> S] : n \in lo..hi}

\* the list is sorted by non-decreasing start
SortedByStart(s) == \A i \in 1..Len(s) : \A j \in i..Len(s) : s[i].start <= s[j].start

VARIABLES
    \* ---- compute_pairwise_relations
    ordered_items,        \* the argument list
    is_related,           \* the relation predicate (descriptor)
    is_possibly_related,  \* the optional pruning predicate (descriptor)
    candidate_items,      \* positions of the current candidates, in list order
    test_ix,              \* index in remaining_items of the next test_item
    related_items,        \* position pairs <<i, j>> appended so far
    related_calls,        \* log of is_related(a, b) calls, as <<pos a, pos b>>
    possibly_calls,       \* log of is_possibly_related(test, item) calls, as <<pos test, pos item>>
    tested,               \* log of the positions that were test_item, in loop order
    predicate_failure,    \* the call on which a predicate raises, NoFailure when it never does
    error,                \* the exception the call raised, "" when none
    pc,                   \* "call" | "sweep" | "returned" | "raised"
    \* ---- merge_utterances / join_utterances
    merge_fn,             \* which of the two functions runs
    uts_arg,              \* the caller's list as it was when the call was made
    uts,                  \* the caller's list object (sorted in place by the call)
    min_gap,
    cur_ut,               \* the accumulator
    cur_ix,               \* position in uts of the utterance cur_ut was taken from
    ut_ix,                \* position in uts of the next ut of the loop
    processed_uts,
    absorbed,             \* log of <<cur_ut.end before, ut, cur_ut.end after>> per absorption
    mpc,                  \* "call" | "walk" | "returned" | "raised"
    merror,               \* the exception the call raised, "" when none
    \* ---- count_relations
    relations,            \* the argument list of (item, item) tuples
    relation_counts,      \* the dict from relation_key to {key1, key2, count}
    rel_ix,               \* position in relations of the next relation of the loop
    counted_key,          \* log: the relation_key each relation was counted under
    cpc,                  \* "call" | "count" | "returned"
    \* ---- reduce(inc_bucket, ...) / _distribute_durations
    bucket_fn,            \* which of the two bucketers runs
    values,               \* the values (meeting lengths / sorted durations) to bucket
    val_ix,               \* position in values of the next value
    buckets,              \* inc_bucket: the list of [bucket max, count] lists
    bucket_cnt,           \* _distribute_durations: the list of counts
    bucket_ndx,           \* _distribute_durations: the current bucket index (0-based)
    bucket_hit,           \* log: per value, the position (from 1) of the count it incremented, 0 if none
    bpc,                  \* "call" | "loop" | "returned"
    \* ---- get_zerolen_ut_distribution
    distributions,        \* the list of num_buckets counts
    meetings_done,        \* number of meetings the loop has walked
    ut_buckets,           \* log: the bucket computed for each zero length utterance of the last meeting
    zpc,                  \* "call" | "loop" | "returned" | "raised"
    zerror                \* the exception the call raised, "" when none

engine_vars == <<ordered_items, is_related, is_possibly_related, candidate_items,
                 test_ix, related_items, related_calls, possibly_calls, tested,
                 predicate_failure, error, pc>>
merge_vars == <<merge_fn, uts_arg, uts, min_gap, cur_ut, cur_ix, ut_ix,
                processed_uts, absorbed, mpc, merror>>
count_vars == <<relations, relation_counts, rel_ix, counted_key, cpc>>
bucket_vars == <<bucket_fn, values, val_ix, buckets, bucket_cnt, bucket_ndx,
                 bucket_hit, bpc>>
zerolen_vars == <<distributions, meetings_done, ut_buckets, zpc, zerror>>
vars == <<engine_vars, merge_vars, count_vars, bucket_vars, zerolen_vars>>

\* ------------------------------------------------------------------------
\* RelationCatalog: riffmetrics.utils.get_meeting_affirmations / _interruptions
\* ------------------------------------------------------------------------
\* getDurationInSeconds(t1, t2): the time from t1 to t2 (kept in ms here)
getDurationInSeconds(t1, t2) == t2 - t1

\* variant: the sign test of the pruning predicate reversed
catalog_is_possibly_related_flipped(later_ut, earlier_ut) ==
    LET time_diff == getDurationInSeconds(earlier_ut.end, later_ut.start)
        keep == time_diff > 0
    IN  keep

catalog_is_possibly_related(later_ut, earlier_ut) ==
    LET time_diff == getDurationInSeconds(earlier_ut.end, later_ut.start)
        keep == time_diff < 0
    IN  keep

\* variant: the test that the earlier utterance outlasts the later one is left out
is_affirmation_without_end_test(earlier_ut, later_ut) ==
    IF earlier_ut.participant = later_ut.participant
    THEN FALSE
    ELSE LET sufficient_overlap == earlier_ut.end - later_ut.start > AFFIRMATION_MIN_OVERLAP
             short_affirmation == later_ut.end - later_ut.start < AFFIRMATION_MAX_LENGTH
         IN  sufficient_overlap /\ short_affirmation

is_affirmation(earlier_ut, later_ut) ==
    IF earlier_ut.participant = later_ut.participant
    THEN FALSE
    ELSE LET sufficient_overlap == earlier_ut.end - later_ut.start > AFFIRMATION_MIN_OVERLAP
             short_affirmation == later_ut.end - later_ut.start < AFFIRMATION_MAX_LENGTH
             affirmation_ends == earlier_ut.end - later_ut.end > 0
         IN  sufficient_overlap /\ short_affirmation /\ affirmation_ends

\* variant: the same-participant test is left out
is_interruption_allowing_self(earlier_ut, later_ut) ==
    LET sufficient_overlap == earlier_ut.end - later_ut.start > AFFIRMATION_MIN_OVERLAP
        short_affirmation == later_ut.end - later_ut.start < AFFIRMATION_MAX_LENGTH
        affirmation_ends == earlier_ut.end - later_ut.end > 0
    IN  sufficient_overlap /\ short_affirmation /\ affirmation_ends

is_interruption(earlier_ut, later_ut) ==
    IF earlier_ut.participant = later_ut.participant
    THEN FALSE
    ELSE LET sufficient_overlap == earlier_ut.end - later_ut.start > AFFIRMATION_MIN_OVERLAP
             short_affirmation == later_ut.end - later_ut.start < AFFIRMATION_MAX_LENGTH
             affirmation_ends == earlier_ut.end - later_ut.end > 0
         IN  sufficient_overlap /\ short_affirmation /\ affirmation_ends

\* ------------------------------------------------------------------------
\* Application of the predicate arguments of compute_pairwise_relations
\* ------------------------------------------------------------------------
NoPruning == [kind |-> "None"]

ApplyRelated(f, a, b) ==
    CASE f.kind = "table" -> f.table[<<a, b>>]
      [] f.kind = "is_affirmation" -> is_affirmation(a, b)
      [] f.kind = "is_interruption" -> is_interruption(a, b)

ApplyPossiblyRelated(g, test_item, item) ==
    CASE g.kind = "table" -> g.table[<<test_item, item>>]
      [] g.kind = "catalog" -> catalog_is_possibly_related(test_item, item)

\* a predicate argument that raises: the predicate pred raises error when it
\* is called with the arguments args
NoFailure == [kind |-> "None"]

Raises(fail, pred, a, b) ==
    fail.kind # "None" /\ fail.pred = pred /\ fail.args = <<a, b>>

\* ------------------------------------------------------------------------
\* compute_pairwise_relations, one iteration of `for test_item in remaining_items`
\* ------------------------------------------------------------------------
\* variant: the filter keeps the candidates the pruning predicate rejects
FilterCandidates_inverted(items, g, cands, j) ==
    IF g.kind # "None"
    THEN SelectSeq(cands, LAMBDA i : ~ApplyPossiblyRelated(g, items[j], items[i]))
    ELSE cands

\* variant: the candidates the pruning predicate rejects are kept
FilterCandidates_keep_all(items, g, cands, j) == cands

\* line 143-144: the candidates kept for the test item at position j
FilterCandidates(items, g, cands, j) ==
    IF g.kind # "None"
    THEN SelectSeq(cands, LAMBDA i : ApplyPossiblyRelated(g, items[j], items[i]))
    ELSE cands

\* variant: the tuple built as (test_item, item)
NewRelatedItems_reversed(items, f, cands, j) ==
    LET hits == SelectSeq(cands, LAMBDA i : ApplyRelated(f, items[i], items[j]))
    IN  [k \in 1..Len(hits) |-> <<j, hits[k]>>]

\* line 147: the (item, test_item) tuples for the kept candidates
NewRelatedItems(items, f, cands, j) ==
    LET hits == SelectSeq(cands, LAMBDA i : ApplyRelated(f, items[i], items[j]))
    IN  [k \in 1..Len(hits) |-> <<hits[k], j>>]

\* line 147: the is_related calls made for the kept candidates, (1st arg, 2nd arg)
RelatedCallsOf(cands, j) == [k \in 1..Len(cands) |-> <<cands[k], j>>]

\* line 144: the is_possibly_related calls made, (1st arg, 2nd arg)
PossiblyCallsOf(g, cands, j) ==
    IF g.kind # "None" THEN [k \in 1..Len(cands) |-> <<j, cands[k]>>] ELSE <<>>

\* position in calls of the first call that raises, 0 when none does
RECURSIVE FirstRaising(_, _, _, _, _)
FirstRaising(items, fail, pred, calls, k) ==
    IF k > Len(calls) THEN 0
    ELSE IF Raises(fail, pred, items[calls[k][1]], items[calls[k][2]]) THEN k
    ELSE FirstRaising(items, fail, pred, calls, k + 1)

\* variant: an exception of a predicate is swallowed and the loop goes on
AfterPredicateError_swallowed(err) == [pc |-> "sweep", error |-> ""]

\* lines 143-147 are in no try block: an exception of a predicate leaves
\* compute_pairwise_relations as it is
AfterPredicateError(err) == [pc |-> "raised", error |-> err]

\* variant: the test item is appended twice
NextCandidates_twice(cands, j) == cands \o <<j, j>>

\* variant: the test item is put in front of the candidates
NextCandidates_in_front(cands, j) == <<j>> \o cands

\* variant: the test item replaces the candidates instead of joining them
NextCandidates_only_test(cands, j) == <<j>>

\* line 153: the test item becomes a candidate
NextCandidates(cands, j) == Append(cands, j)

\* line 137: candidate_items = [ordered_items[0]], as positions
first_candidates(items) == <<1>>

\* variant: the first item is left in the remaining list
remaining_items_all(items) == [k \in 1..Len(items) |-> k]

\* variant: the remaining items are walked from the last to the second
remaining_items_reversed(items) == [k \in 1..(Len(items) - 1) |-> Len(items) + 1 - k]

\* line 138: remaining_items = ordered_items[1:], as positions
remaining_items(items) == [k \in 1..(Len(items) - 1) |-> k + 1]

\* lines 141-153 from the t-th remaining item on, with the candidates and result so far
RECURSIVE SweepFrom(_, _, _, _, _, _)
SweepFrom(items, f, g, t, cands, rel) ==
    IF t > Len(remaining_items(items)) THEN rel
    ELSE LET j == remaining_items(items)[t]
             kept == FilterCandidates(items, g, cands, j)
         IN  SweepFrom(items, f, g, t + 1, NextCandidates(kept, j),
                       rel \o NewRelatedItems(items, f, kept, j))

\* the whole function on a non-empty list: the returned position pairs
compute_pairwise_relations(items, f, g) ==
    SweepFrom(items, f, g, 1, first_candidates(items), <<>>)

\* the tuples of items a list of position pairs stands for
PairsOf(items, rel) == [k \in 1..Len(rel) |-> <<items[rel[k][1]], items[rel[k][2]]>>]

SeqToSet(s) == {s[k] : k \in 1..Len(s)}

\* ---- actions
\* lines 137-140
Begin ==
    /\ pc = "call"
    /\ IF Len(ordered_items) = 0
       THEN \* ordered_items[0] raises IndexError
            /\ pc' = "raised"
            /\ error' = "IndexError"
            /\ UNCHANGED <<candidate_items, test_ix, related_items>>
       ELSE /\ candidate_items' = first_candidates(ordered_items)
            /\ test_ix' = 1
            /\ related_items' = <<>>
            /\ pc' = "sweep"
            /\ UNCHANGED error
    /\ UNCHANGED <<ordered_items, is_related, is_possibly_related, related_calls,
                   possibly_calls, tested, predicate_failure>>
    /\ UNCHANGED <<merge_vars, count_vars, bucket_vars, zerolen_vars>>

\* lines 141-153, one test_item
SweepStep ==
    /\ pc = "sweep"
    /\ test_ix <= Len(remaining_items(ordered_items))
    /\ LET j == remaining_items(ordered_items)[test_ix]
           pcalls == PossiblyCallsOf(is_possibly_related, candidate_items, j)
           praise == FirstRaising(ordered_items, predicate_failure,
                                  "is_possibly_related", pcalls, 1)
           kept == FilterCandidates(ordered_items, is_possibly_related, candidate_items, j)
           rcalls == RelatedCallsOf(kept, j)
           rraise == FirstRaising(ordered_items, predicate_failure,
                                  "is_related", rcalls, 1)
           after == AfterPredicateError(predicate_failure.error)
       IN  IF praise > 0
           THEN \* line 144 raises: nothing is assigned
                /\ possibly_calls' = possibly_calls \o SubSeq(pcalls, 1, praise)
                /\ pc' = after.pc
                /\ error' = after.error
                /\ UNCHANGED <<related_calls, related_items, candidate_items>>
           ELSE IF rraise > 0
           THEN \* line 147 raises: candidate_items was assigned, nothing else
                /\ possibly_calls' = possibly_calls \o pcalls
                /\ related_calls' = related_calls \o SubSeq(rcalls, 1, rraise)
                /\ candidate_items' = kept
                /\ pc' = after.pc
                /\ error' = after.error
                /\ UNCHANGED related_items
           ELSE /\ possibly_calls' = possibly_calls \o pcalls
                /\ related_calls' = related_calls \o rcalls
                /\ related_items' = related_items \o
                                    NewRelatedItems(ordered_items, is_related, kept, j)
                /\ candidate_items' = NextCandidates(kept, j)
                /\ UNCHANGED <<pc, error>>
    /\ tested' = Append(tested, remaining_items(ordered_items)[test_ix])
    /\ test_ix' = test_ix + 1
    /\ UNCHANGED <<ordered_items, is_related, is_possibly_related, predicate_failure>>
    /\ UNCHANGED <<merge_vars, count_vars, bucket_vars, zerolen_vars>>

\* line 156
Return ==
    /\ pc = "sweep"
    /\ test_ix > Len(remaining_items(ordered_items))
    /\ pc' = "returned"
    /\ UNCHANGED <<ordered_items, is_related, is_possibly_related, candidate_items,
                   test_ix, related_items, related_calls, possibly_calls, tested,
                   predicate_failure, error>>
    /\ UNCHANGED <<merge_vars, count_vars, bucket_vars, zerolen_vars>>

MergeIdle ==
    /\ merge_fn = "none" /\ uts_arg = <<>> /\ uts = <<>> /\ min_gap = 0
    /\ cur_ut = <<>> /\ cur_ix = 0 /\ ut_ix = 0 /\ processed_uts = <<>>
    /\ absorbed = <<>> /\ mpc = "idle" /\ merror = ""

\* the empty dict
EmptyDict == [k \in {} |-> 0]

CountIdle ==
    /\ relations = <<>> /\ relation_counts = EmptyDict /\ rel_ix = 0
    /\ counted_key = <<>> /\ cpc = "idle"

BucketIdle ==
    /\ bucket_fn = "none" /\ values = <<>> /\ val_ix = 0 /\ buckets = <<>>
    /\ bucket_cnt = <<>> /\ bucket_ndx = 0 /\ bucket_hit = <<>> /\ bpc = "idle"

ZeroLenIdle ==
    /\ distributions = <<>> /\ meetings_done = 0 /\ ut_buckets = <<>>
    /\ zpc = "idle" /\ zerror = ""

EngineStart ==
    /\ candidate_items = <<>> /\ test_ix = 0 /\ related_items = <<>>
    /\ related_calls = <<>> /\ possibly_calls = <<>> /\ tested = <<>>
    /\ error = "" /\ pc = "call"

\* the generic engine: any list of opaque items, any predicates
InitEngine ==
    /\ ordered_items \in SeqsOf(Vals, 0, MaxItems)
    /\ is_related \in {[kind |-> "table", table |-> t] : t \in Tables}
    /\ is_possibly_related \in {NoPruning} \cup {[kind |-> "table", table |-> t] : t \in Tables}
    /\ predicate_failure = NoFailure
    /\ EngineStart
    /\ MergeIdle
    /\ CountIdle
    /\ BucketIdle
    /\ ZeroLenIdle

NextEngine == Begin \/ SweepStep \/ Return

SpecEngine == InitEngine /\ [][NextEngine]_vars

\* the call runs on until it returns or raises
SpecEngineFair == SpecEngine /\ WF_vars(NextEngine)

\* the generic engine with a predicate that raises on one pair of arguments
PredicateErrors == {"KeyError", "TypeError"}
PredicateFailures ==
    [kind : {"raises"}, pred : {"is_related", "is_possibly_related"},
     args : Vals \X Vals, error : PredicateErrors]

InitEngineFailing ==
    /\ ordered_items \in SeqsOf(Vals, 0, MaxItems)
    /\ is_related \in {[kind |-> "table", table |-> t] : t \in Tables}
    /\ is_possibly_related \in {NoPruning} \cup {[kind |-> "table", table |-> t] : t \in Tables}
    /\ predicate_failure \in PredicateFailures
    /\ EngineStart
    /\ MergeIdle
    /\ CountIdle
    /\ BucketIdle
    /\ ZeroLenIdle

SpecEngineFailing == InitEngineFailing /\ [][NextEngine]_vars

\* the catalog: a meeting's utterances sorted by start, the catalog predicates
MeetingUtterances == UtterancesOver(Participants, MeetingTimes)

\* two meetings with a short utterance of B during a long one of A
AffirmationScenario1 ==
    <<Utterance("A", 0, 1000), Utterance("B", 500, 1200), Utterance("A", 1300, 1400)>>
AffirmationScenario2 ==
    <<Utterance("A", 0, 5000), Utterance("B", 1000, 1800)>>

\* meetings whose overlap, length or end difference sits on a threshold
ThresholdMeetings ==
    { <<Utterance("A", 0, 1000), Utterance("B", 750, 900)>>,
      <<Utterance("A", 0, 5000), Utterance("B", 1000, 3000)>>,
      <<Utterance("A", 0, 1000), Utterance("B", 500, 1000)>>,
      <<Utterance("A", 0, 2000), Utterance("B", 1000, 6000)>>,
      <<Utterance("A", 0, 2000), Utterance("B", 1000, 7000)>> }

InitCatalog ==
    /\ ordered_items \in
          {s \in SeqsOf(MeetingUtterances, 0, MaxMeetingUts) : SortedByStart(s)}
              \cup {AffirmationScenario1, AffirmationScenario2} \cup ThresholdMeetings
    /\ is_related \in {[kind |-> "is_affirmation"], [kind |-> "is_interruption"]}
    /\ is_possibly_related \in {NoPruning, [kind |-> "catalog"]}
    /\ predicate_failure = NoFailure
    /\ EngineStart
    /\ MergeIdle
    /\ CountIdle
    /\ BucketIdle
    /\ ZeroLenIdle

SpecCatalog == InitCatalog /\ [][NextEngine]_vars

\* ------------------------------------------------------------------------
\* merge_utterances (riffmetrics.utils) / join_utterances (meeting_timeline)
\* ------------------------------------------------------------------------
\* list.sort(key=start) on one more element: u goes after every element whose
\* start is not greater (the sort is stable)
RECURSIVE InsertByStart(_, _)
InsertByStart(sorted, u) ==
    IF sorted = <<>> THEN <<u>>
    ELSE LET n == Len(sorted)
         IN  IF sorted[n].start <= u.start
             THEN Append(sorted, u)
             ELSE Append(InsertByStart(SubSeq(sorted, 1, n - 1), u), sorted[n])

RECURSIVE SortPrefix(_, _)
SortPrefix(l, n) == IF n = 0 THEN <<>> ELSE InsertByStart(SortPrefix(l, n - 1), l[n])

\* variant: the list is walked in the order given
SortByStart_none(l) == l

\* uts.sort(key=lambda ut: ut['start'])
SortByStart(l) == SortPrefix(l, Len(l))

\* variant: the gap measured to the end of ut instead of its start
Absorbs_by_end(cur, ut, g) == ut.end - cur.end < g

\* variant: the comparison with min_gap reversed
Absorbs_flipped(cur, ut, g) == ut.start - cur.end > g

\* variant: the gap measured from the start of the accumulator
Absorbs_from_start(cur, ut, g) == ut.start - cur.start < g

\* the test `ut['start'] - cur_ut['end'] < min_gap`
Absorbs(cur, ut, g) == ut.start - cur.end < g

\* cur_ut['end'] = ut['end']
Absorb(cur, ut) == [cur EXCEPT !.end = ut.end]

\* variant: the accumulator left after the loop is not appended
FinalAppend_dropped(out, cur) == out

\* processed_uts.append(cur_ut) after the loop
FinalAppend(out, cur) == Append(out, cur)

\* variant: neither function copies the utterance it accumulates into
Aliases_always(fn) == TRUE

\* cur_ut is the list's own element (join_utterances: cur_ut = uts[0], cur_ut = ut)
\* and not a copy of it (merge_utterances: uts[0].copy(), ut.copy())
Aliases(fn) == fn = "join_utterances"

\* the loop over uts[1:] from position k on, then the final append
RECURSIVE WalkFrom(_, _, _, _, _)
WalkFrom(sorted, g, k, cur, out) ==
    IF k > Len(sorted) THEN FinalAppend(out, cur)
    ELSE IF Absorbs(cur, sorted[k], g)
         THEN WalkFrom(sorted, g, k + 1, Absorb(cur, sorted[k]), out)
         ELSE WalkFrom(sorted, g, k + 1, sorted[k], Append(out, cur))

\* the value returned for a non-empty list
merge_utterances(l, g) ==
    LET sorted == SortByStart(l) IN WalkFrom(sorted, g, 2, sorted[1], <<>>)

\* ---- actions
\* the sort, processed_uts = [] and cur_ut = uts[0] (.copy() in merge_utterances)
MergeBegin ==
    /\ mpc = "call"
    /\ uts' = SortByStart(uts)
    /\ IF Len(uts) = 0
       THEN \* uts[0] raises IndexError
            /\ mpc' = "raised"
            /\ merror' = "IndexError"
            /\ UNCHANGED <<cur_ut, cur_ix, ut_ix, processed_uts>>
       ELSE /\ processed_uts' = <<>>
            /\ cur_ut' = uts'[1]
            /\ cur_ix' = 1
            /\ ut_ix' = 2
            /\ mpc' = "walk"
            /\ UNCHANGED merror
    /\ UNCHANGED <<merge_fn, uts_arg, min_gap, absorbed>>
    /\ UNCHANGED <<engine_vars, count_vars, bucket_vars, zerolen_vars>>

\* one iteration of `for ut in uts[1:]`
MergeStep ==
    /\ mpc = "walk"
    /\ ut_ix <= Len(uts)
    /\ LET ut == uts[ut_ix]
       IN  IF Absorbs(cur_ut, ut, min_gap)
           THEN /\ cur_ut' = Absorb(cur_ut, ut)
                /\ absorbed' = Append(absorbed, [before |-> cur_ut.end, ut |-> ut,
                                                 after |-> cur_ut'.end])
                \* an aliased cur_ut is the list's own element
                /\ uts' = IF Aliases(merge_fn)
                          THEN [uts EXCEPT ![cur_ix] = cur_ut']
                          ELSE uts
                /\ UNCHANGED <<processed_uts, cur_ix>>
           ELSE /\ processed_uts' = Append(processed_uts, cur_ut)
                /\ cur_ut' = ut
                /\ cur_ix' = ut_ix
                /\ UNCHANGED <<uts, absorbed>>
    /\ ut_ix' = ut_ix + 1
    /\ UNCHANGED <<merge_fn, uts_arg, min_gap, mpc, merror>>
    /\ UNCHANGED <<engine_vars, count_vars, bucket_vars, zerolen_vars>>

\* processed_uts.append(cur_ut); return processed_uts
MergeReturn ==
    /\ mpc = "walk"
    /\ ut_ix > Len(uts)
    /\ processed_uts' = FinalAppend(processed_uts, cur_ut)
    /\ mpc' = "returned"
    /\ UNCHANGED <<merge_fn, uts_arg, uts, min_gap, cur_ut, cur_ix, ut_ix, absorbed, merror>>
    /\ UNCHANGED <<engine_vars, count_vars, bucket_vars, zerolen_vars>>

EngineIdle ==
    /\ ordered_items = <<>> /\ is_related = [kind |-> "None"]
    /\ is_possibly_related = NoPruning
    /\ candidate_items = <<>> /\ test_ix = 0 /\ related_items = <<>>
    /\ related_calls = <<>> /\ possibly_calls = <<>> /\ tested = <<>>
    /\ predicate_failure = NoFailure /\ error = "" /\ pc = "idle"

\* one participant's utterances, in any order
MergeUtterances == UtterancesOver({"A"}, MergeTimes)

InitMerge ==
    /\ merge_fn \in {"merge_utterances", "join_utterances"}
    /\ uts_arg \in SeqsOf(MergeUtterances, 0, MaxUts)
    /\ uts = uts_arg
    /\ min_gap \in MinGaps
    /\ cur_ut = <<>> /\ cur_ix = 0 /\ ut_ix = 0 /\ processed_uts = <<>>
    /\ absorbed = <<>> /\ mpc = "call" /\ merror = ""
    /\ EngineIdle
    /\ CountIdle
    /\ BucketIdle
    /\ ZeroLenIdle

NextMerge == MergeBegin \/ MergeStep \/ MergeReturn

SpecMerge == InitMerge /\ [][NextMerge]_vars

\* ------------------------------------------------------------------------
\* count_relations (riffmetrics.utils)
\* ------------------------------------------------------------------------
\* longest relation list given to count_relations
MaxRelations == 3

\* the get_item_key of compute_utterance_pairwise_relations: lambda u: u['participant']
get_item_key(u) == u.participant

\* relation_key = key1 + key2 (concatenation of the two strings)
relation_key(key1, key2) == key1 \o key2

\* variant: a new edge starts with a count of 0
NewEdge_zero(key1, key2) == [key1 |-> key1, key2 |-> key2, count |-> 0]

\* the dict stored for a relation_key seen for the first time
NewEdge(key1, key2) == [key1 |-> key1, key2 |-> key2, count |-> 1]

\* the body of `for relation in relations` on the dict counts
CountOne(counts, relation) ==
    LET key1 == get_item_key(relation[1])
        key2 == get_item_key(relation[2])
        rk == relation_key(key1, key2)
    IN  IF rk \in DOMAIN counts
        THEN [counts EXCEPT ![rk].count = @ + 1]
        ELSE [k \in DOMAIN counts \cup {rk} |->
                 IF k = rk THEN NewEdge(key1, key2) ELSE counts[k]]

RECURSIVE CountFrom(_, _, _)
CountFrom(rels, k, counts) ==
    IF k > Len(rels) THEN counts ELSE CountFrom(rels, k + 1, CountOne(counts, rels[k]))

\* the returned dict
count_relations(rels) == CountFrom(rels, 1, EmptyDict)

\* ---- actions
\* relation_counts = {}
CountBegin ==
    /\ cpc = "call"
    /\ relation_counts' = EmptyDict
    /\ rel_ix' = 1
    /\ cpc' = "count"
    /\ UNCHANGED <<relations, counted_key>>
    /\ UNCHANGED <<engine_vars, merge_vars, bucket_vars, zerolen_vars>>

\* one iteration of `for relation in relations`
CountStep ==
    /\ cpc = "count"
    /\ rel_ix <= Len(relations)
    /\ relation_counts' = CountOne(relation_counts, relations[rel_ix])
    /\ counted_key' = Append(counted_key,
                             relation_key(get_item_key(relations[rel_ix][1]),
                                          get_item_key(relations[rel_ix][2])))
    /\ rel_ix' = rel_ix + 1
    /\ UNCHANGED <<relations, cpc>>
    /\ UNCHANGED <<engine_vars, merge_vars, bucket_vars, zerolen_vars>>

\* return relation_counts
CountReturn ==
    /\ cpc = "count"
    /\ rel_ix > Len(relations)
    /\ cpc' = "returned"
    /\ UNCHANGED <<relations, relation_counts, rel_ix, counted_key>>
    /\ UNCHANGED <<engine_vars, merge_vars, bucket_vars, zerolen_vars>>

\* item keys: strings of different lengths
ItemKeys == {"a", "aa", "b"}

\* items of the relations, identified by their key
CountItems == [participant : ItemKeys]

InitCount ==
    /\ relations \in SeqsOf(CountItems \X CountItems, 0, MaxRelations)
    /\ relation_counts = EmptyDict /\ rel_ix = 0 /\ counted_key = <<>> /\ cpc = "call"
    /\ EngineIdle
    /\ MergeIdle
    /\ BucketIdle
    /\ ZeroLenIdle

NextCount == CountBegin \/ CountStep \/ CountReturn

SpecCount == InitCount /\ [][NextCount]_vars

\* ------------------------------------------------------------------------
\* reduce(inc_bucket, ...) (visualize.meetings) and _distribute_durations
\* (visualize.utterance_duration)
\* ------------------------------------------------------------------------
\* longest list of values bucketed
MaxValues == 3

\* list(range(a, b, step))
RangeSeq(a, b, step) == [k \in 1..((b - a + step - 1) \div step) |-> a + (k - 1) * step]

\* the initial meeting_duration_distribution of get_meeting_data / do_analysis
meeting_duration_distribution ==
    << <<5, 0>>, <<10, 0>>, <<20, 0>>, <<40, 0>>, <<60, 0>>, <<120, 0>>, <<180, 0>>,
       <<720, 0>> >>

\* the buckets list of _distribute_durations (ms)
duration_buckets ==
    <<0, 2, 5>> \o RangeSeq(10, 300, 10) \o RangeSeq(300, 3500, 50)
        \o RangeSeq(3500, 8001, 500) \o RangeSeq(10000, 60001, 10000)

\* inc_bucket: position of the first bucket from position k on with v < b[0], 0 if none
RECURSIVE FirstBucketOver(_, _, _)
FirstBucketOver(bs, v, k) ==
    IF k > Len(bs) THEN 0
    ELSE IF v < bs[k][1] THEN k
    ELSE FirstBucketOver(bs, v, k + 1)

\* inc_bucket(buckets, v): the buckets list after the call
inc_bucket(bs, v) ==
    LET k == FirstBucketOver(bs, v, 1)
    IN  IF k = 0 THEN bs ELSE [bs EXCEPT ![k][2] = @ + 1]

\* _distribute_durations: the bucket_ndx the `while` loop stops at, entered at n
RECURSIVE SkipBuckets(_, _, _)
SkipBuckets(bs, duration, n) ==
    IF n < Len(bs) /\ duration > bs[n + 1]
    THEN SkipBuckets(bs, duration, n + 1)
    ELSE n

\* variant: a duration equal to the bucket maximum goes to the next bucket
DistributeOne_exclusive(bs, cnt, ndx, duration) ==
    IF ndx >= Len(bs) \/ duration < bs[ndx + 1]
    THEN [bucket_cnt |-> [cnt EXCEPT ![ndx + 1] = @ + 1], bucket_ndx |-> ndx]
    ELSE LET stop == SkipBuckets(bs, duration, ndx + 1)
         IN  [bucket_cnt |-> cnt \o [k \in 1..(stop - (ndx + 1)) |-> 0] \o <<1>>,
              bucket_ndx |-> stop]

\* _distribute_durations: the body of `for duration in durations`, giving the
\* new bucket_cnt and bucket_ndx
DistributeOne(bs, cnt, ndx, duration) ==
    IF ndx >= Len(bs) \/ duration <= bs[ndx + 1]
    THEN [bucket_cnt |-> [cnt EXCEPT ![ndx + 1] = @ + 1], bucket_ndx |-> ndx]
    ELSE LET stop == SkipBuckets(bs, duration, ndx + 1)
         IN  [bucket_cnt |-> cnt \o [k \in 1..(stop - (ndx + 1)) |-> 0] \o <<1>>,
              bucket_ndx |-> stop]

\* ---- actions
\* the initial buckets / `bucket_cnt = [0]; bucket_ndx = 0`
BucketBegin ==
    /\ bpc = "call"
    /\ IF bucket_fn = "inc_bucket"
       THEN /\ buckets' = meeting_duration_distribution
            /\ UNCHANGED <<bucket_cnt, bucket_ndx>>
       ELSE /\ bucket_cnt' = <<0>>
            /\ bucket_ndx' = 0
            /\ UNCHANGED buckets
    /\ val_ix' = 1
    /\ bpc' = "loop"
    /\ UNCHANGED <<bucket_fn, values, bucket_hit>>
    /\ UNCHANGED <<engine_vars, merge_vars, count_vars, zerolen_vars>>

\* one call inc_bucket(buckets, v) made by reduce
IncBucketStep ==
    /\ bpc = "loop" /\ bucket_fn = "inc_bucket"
    /\ val_ix <= Len(values)
    /\ buckets' = inc_bucket(buckets, values[val_ix])
    /\ bucket_hit' = Append(bucket_hit, FirstBucketOver(buckets, values[val_ix], 1))
    /\ val_ix' = val_ix + 1
    /\ UNCHANGED <<bucket_fn, values, bucket_cnt, bucket_ndx, bpc>>
    /\ UNCHANGED <<engine_vars, merge_vars, count_vars, zerolen_vars>>

\* one iteration of `for duration in durations`
DistributeStep ==
    /\ bpc = "loop" /\ bucket_fn = "_distribute_durations"
    /\ val_ix <= Len(values)
    /\ LET r == DistributeOne(duration_buckets, bucket_cnt, bucket_ndx, values[val_ix])
       IN  /\ bucket_cnt' = r.bucket_cnt
           /\ bucket_ndx' = r.bucket_ndx
           /\ bucket_hit' = Append(bucket_hit, r.bucket_ndx + 1)
    /\ val_ix' = val_ix + 1
    /\ UNCHANGED <<bucket_fn, values, buckets, bpc>>
    /\ UNCHANGED <<engine_vars, merge_vars, count_vars, zerolen_vars>>

\* the end of the reduce / `return buckets, bucket_cnt, graph_ranges`
BucketReturn ==
    /\ bpc = "loop"
    /\ val_ix > Len(values)
    /\ bpc' = "returned"
    /\ UNCHANGED <<bucket_fn, values, val_ix, buckets, bucket_cnt, bucket_ndx, bucket_hit>>
    /\ UNCHANGED <<engine_vars, merge_vars, count_vars, zerolen_vars>>

\* meeting lengths in minutes, around the bucket maxima
MeetingLengths == {0, 4, 5, 100, 719, 720, 1000}

\* utterance durations in ms, around the bucket boundaries
Durations == {0, 1, 2, 7, 310, 60000, 70000}

SortedAscending(l) == \A i \in 1..Len(l) : \A j \in i..Len(l) : l[i] <= l[j]

InitBucket ==
    /\ bucket_fn \in {"inc_bucket", "_distribute_durations"}
    /\ values \in IF bucket_fn = "inc_bucket"
                  THEN SeqsOf(MeetingLengths, 0, MaxValues)
                  ELSE {l \in SeqsOf(Durations, 0, MaxValues) : SortedAscending(l)}
    /\ val_ix = 0 /\ buckets = <<>> /\ bucket_cnt = <<>> /\ bucket_ndx = 0
    /\ bucket_hit = <<>> /\ bpc = "call"
    /\ EngineIdle
    /\ MergeIdle
    /\ CountIdle
    /\ ZeroLenIdle

NextBucket == BucketBegin \/ IncBucketStep \/ DistributeStep \/ BucketReturn

SpecBucket == InitBucket /\ [][NextBucket]_vars

\* ------------------------------------------------------------------------
\* visualize.zero_duration_distrib.get_zerolen_ut_distribution
\* (datetimes and timedeltas in microseconds, their resolution)
\* ------------------------------------------------------------------------
\* most meetings in the meetings map
MaxMeetings == 2
\* most utterances of one meeting (all participants together)
MaxZeroLenUts == 2

num_buckets == 50
\* timedelta(minutes=1)
timedelta_minute == 60000000
\* timedelta(milliseconds=1)
timedelta_millisecond == 1000

\* timedelta / int: the quotient rounded to the nearest microsecond, ties to even
RoundHalfEven(n, d) ==
    LET q == n \div d
        r == n % d
    IN  IF 2 * r < d THEN q
        ELSE IF 2 * r > d THEN q + 1
        ELSE IF q % 2 = 0 THEN q ELSE q + 1

\* riffdata: an utterance with its duration in whole milliseconds
TimedUtterance(s, e) ==
    [start |-> s, end |-> e, duration |-> (e - s) \div timedelta_millisecond]

\* instants of a meeting: its start, its middle, one minute after its start
\* and 25 us later (a fiftieth of that duration is a tie of the rounding)
ZeroLenTimes == {0, 30000000, 60000000, 60000025}

ZeroLenUtterances ==
    {TimedUtterance(t[1], t[2]) : t \in {p \in ZeroLenTimes \X ZeroLenTimes : p[1] <= p[2]}}

\* all_meeting_uts of the meetings the map may hold
ZeroLenMeetings == SeqsOf(ZeroLenUtterances, 0, MaxZeroLenUts)

RECURSIVE MinStart(_, _)
MinStart(l, n) ==
    IF n = 1 THEN l[1].start
    ELSE LET m == MinStart(l, n - 1) IN IF l[n].start < m THEN l[n].start ELSE m

RECURSIVE MaxEnd(_, _)
MaxEnd(l, n) ==
    IF n = 1 THEN l[1].end
    ELSE LET m == MaxEnd(l, n - 1) IN IF l[n].end > m THEN l[n].end ELSE m

\* variant: the bucket size without the added millisecond
bucket_size_without_margin(meeting_start, meeting_end) ==
    RoundHalfEven(meeting_end - meeting_start, num_buckets)

\* line 66
bucket_size(meeting_start, meeting_end) ==
    RoundHalfEven(meeting_end - meeting_start, num_buckets) + timedelta_millisecond

\* lines 70-71: the bucket of each utterance of duration 0, with the utterance
\* and the meeting's start and end
BucketsOfMeeting(all_meeting_uts) ==
    LET meeting_start == MinStart(all_meeting_uts, Len(all_meeting_uts))
        meeting_end == MaxEnd(all_meeting_uts, Len(all_meeting_uts))
        zero == SelectSeq(all_meeting_uts, LAMBDA ut : ut.duration = 0)
    IN  [k \in 1..Len(zero) |->
            [ut |-> zero[k], meeting_start |-> meeting_start, meeting_end |-> meeting_end,
             bucket |-> (zero[k].start - meeting_start)
                            \div bucket_size(meeting_start, meeting_end)]]

\* reduce(distribute, ...): distributions[bucket] += 1 for each bucket from the
\* k-th on, a negative index counting from the end of the list; the first
\* index outside the list raises IndexError and ends the reduce
RECURSIVE ReduceDistribute(_, _, _)
ReduceDistribute(d, bs, k) ==
    IF k > Len(bs) THEN [distributions |-> d, error |-> ""]
    ELSE LET b == bs[k].bucket
         IN  IF b >= 0 /\ b < Len(d)
             THEN ReduceDistribute([d EXCEPT ![b + 1] = @ + 1], bs, k + 1)
             ELSE IF b < 0 /\ b >= -Len(d)
             THEN ReduceDistribute([d EXCEPT ![Len(d) + b + 1] = @ + 1], bs, k + 1)
             ELSE [distributions |-> d, error |-> "IndexError"]

\* ---- actions
\* lines 43-44
ZeroLenBegin ==
    /\ zpc = "call"
    /\ distributions' = [i \in 1..num_buckets |-> 0]
    /\ zpc' = "loop"
    /\ UNCHANGED <<meetings_done, ut_buckets, zerror>>
    /\ UNCHANGED <<engine_vars, merge_vars, count_vars, bucket_vars>>

\* lines 50-72: one iteration of `for meeting_id in meetings`
ZeroLenMeeting ==
    /\ zpc = "loop"
    /\ meetings_done < MaxMeetings
    /\ \E all_meeting_uts \in ZeroLenMeetings :
          IF Len(all_meeting_uts) = 0
          THEN UNCHANGED <<distributions, ut_buckets, zpc, zerror>>
          ELSE LET meeting_start == MinStart(all_meeting_uts, Len(all_meeting_uts))
                   meeting_end == MaxEnd(all_meeting_uts, Len(all_meeting_uts))
                   meeting_duration == meeting_end - meeting_start
                   bs == BucketsOfMeeting(all_meeting_uts)
                   r == ReduceDistribute(distributions, bs, 1)
               IN  IF meeting_duration < timedelta_minute
                   THEN UNCHANGED <<distributions, ut_buckets, zpc, zerror>>
                   ELSE /\ ut_buckets' = bs
                        /\ distributions' = r.distributions
                        /\ zerror' = r.error
                        /\ zpc' = IF r.error = "" THEN "loop" ELSE "raised"
    /\ meetings_done' = meetings_done + 1
    /\ UNCHANGED <<engine_vars, merge_vars, count_vars, bucket_vars>>

\* line 74
ZeroLenReturn ==
    /\ zpc = "loop"
    /\ zpc' = "returned"
    /\ UNCHANGED <<distributions, meetings_done, ut_buckets, zerror>>
    /\ UNCHANGED <<engine_vars, merge_vars, count_vars, bucket_vars>>

InitZeroLen ==
    /\ distributions = <<>> /\ meetings_done = 0 /\ ut_buckets = <<>>
    /\ zpc = "call" /\ zerror = ""
    /\ EngineIdle
    /\ MergeIdle
    /\ CountIdle
    /\ BucketIdle

NextZeroLen == ZeroLenBegin \/ ZeroLenMeeting \/ ZeroLenReturn

SpecZeroLen == InitZeroLen /\ [][NextZeroLen]_vars

\* the relation_counts of compute_utterance_pairwise_relations for the related
\* items rel (position pairs) of the list items
relation_counts_of(items, rel) == count_relations(PairsOf(items, rel))

\* ========================================================================
\* Properties
\* ========================================================================
Max(a, b) == IF a >= b THEN a ELSE b

\* positions i < j of a list
PositionPairs(items) ==
    {p \in (1..Len(items)) \X (1..Len(items)) : p[1] < p[2]}

\* the brute-force all-pairs scan restricted to i < j, as tuples of items
BruteForcePairs(items, f) ==
    {<<items[p[1]], items[p[2]]>> :
        p \in {q \in PositionPairs(items) : ApplyRelated(f, items[q[1]], items[q[2]])}}

\* C1: without a pruning predicate, on a list of length >= 2 the returned
\* pairs are exactly the pairs (items[i], items[j]), i < j, that is_related
\* accepts: none is missing and no other pair is present.
C1_CompleteWithoutPruning ==
    (pc = "returned" /\ is_possibly_related.kind = "None" /\ Len(ordered_items) >= 2)
        => SeqToSet(PairsOf(ordered_items, related_items))
               = BruteForcePairs(ordered_items, is_related)

C1_Witness ==
    /\ pc = "returned" /\ is_possibly_related.kind = "None"
    /\ Len(ordered_items) >= 3
    /\ related_items # <<>>
    /\ Len(related_items) < Len(related_calls)

\* the pruning predicate g is monotone for f on the list: a candidate it
\* rejects for a test item is unrelated to that item and to every later item
Monotone(items, f, g) ==
    \A p \in PositionPairs(items) :
        ~ApplyPossiblyRelated(g, items[p[2]], items[p[1]])
            => \A k \in p[2]..Len(items) : ~ApplyRelated(f, items[p[1]], items[k])

\* C2: with a monotone pruning predicate the set of returned pairs equals
\* the set returned by the same call without the pruning predicate.
C2_PruningPreservesResult ==
    (pc = "returned" /\ is_possibly_related.kind # "None"
       /\ Monotone(ordered_items, is_related, is_possibly_related))
        => SeqToSet(PairsOf(ordered_items, related_items))
               = SeqToSet(PairsOf(ordered_items,
                     compute_pairwise_relations(ordered_items, is_related, NoPruning)))

C2_Witness ==
    /\ pc = "returned" /\ is_possibly_related.kind # "None"
    /\ Monotone(ordered_items, is_related, is_possibly_related)
    /\ Len(candidate_items) < Len(ordered_items)
    /\ related_items # <<>>

\* C3: on a list sorted by start, an utterance e the catalog pruning
\* predicate rejects against a later utterance l is neither affirmed nor
\* interrupted by l or by any utterance after l, and the pruned sweep returns
\* every Affirmation / Interruption pair of the list.
C3_CatalogPruningSound ==
    is_possibly_related.kind = "catalog" =>
        /\ \A c \in 1..Len(possibly_calls) :
              LET l == possibly_calls[c][1]
                  e == possibly_calls[c][2]
              IN  ~catalog_is_possibly_related(ordered_items[l], ordered_items[e])
                      => \A x \in l..Len(ordered_items) :
                            /\ ~is_affirmation(ordered_items[e], ordered_items[x])
                            /\ ~is_interruption(ordered_items[e], ordered_items[x])
        /\ pc = "returned" =>
              SeqToSet(related_items)
                  = {q \in PositionPairs(ordered_items) :
                        ApplyRelated(is_related, ordered_items[q[1]], ordered_items[q[2]])}

C3_Witness ==
    /\ pc = "returned" /\ is_possibly_related.kind = "catalog"
    /\ Len(candidate_items) < Len(ordered_items)
    /\ related_items # <<>>

\* C4: every call is_related(a, b) has a at a strictly smaller position of
\* the list than b, with or without a pruning predicate.
C4_RelatedCalledInListOrder ==
    \A c \in 1..Len(related_calls) : related_calls[c][1] < related_calls[c][2]

C4_Witness ==
    /\ pc = "returned" /\ is_possibly_related.kind # "None"
    /\ Len(related_calls) >= 2

\* C5: a list of length 0 or 1 gives an empty result and no failure.
C5_ShortListEmptyResult ==
    Len(ordered_items) <= 1 =>
        /\ pc # "raised"
        /\ pc = "returned" => related_items = <<>>

\* C6: on a list sorted by non-decreasing start every returned pair (a, b)
\* has a.start <= b.start.
C6_PairsInStartOrder ==
    SortedByStart(ordered_items) =>
        \A k \in 1..Len(related_items) :
            ordered_items[related_items[k][1]].start
                <= ordered_items[related_items[k][2]].start

C6_Witness ==
    /\ pc = "returned"
    /\ \E k \in 1..Len(related_items) :
          ordered_items[related_items[k][1]].start
              < ordered_items[related_items[k][2]].start

\* C7: merging the merged list again with the same min_gap changes nothing.
C7_MergeIdempotent ==
    mpc = "returned" => merge_utterances(processed_uts, min_gap) = processed_uts

C7_Witness ==
    /\ mpc = "returned"
    /\ absorbed # <<>>
    /\ Len(processed_uts) >= 2

\* adjacent results are in start order and the earlier one ends by the
\* start of the later one
OrderedAndDisjoint(l) ==
    \A k \in 1..(Len(l) - 1) :
        /\ l[k].start <= l[k + 1].start
        /\ l[k].end <= l[k + 1].start

\* C8 as stated: for every min_gap the merged intervals are ordered by start
\* and non-overlapping.
C8_DisjointForAnyMinGap ==
    mpc = "returned" => OrderedAndDisjoint(processed_uts)

\* C8: for every min_gap >= 0 the merged intervals are ordered by ascending
\* start and each ends no later than the next one starts.
C8_DisjointForNonNegativeMinGap ==
    (mpc = "returned" /\ min_gap >= 0) => OrderedAndDisjoint(processed_uts)

C8_Witness ==
    /\ mpc = "returned" /\ min_gap >= 0
    /\ ~SortedByStart(uts_arg)
    /\ absorbed # <<>>
    /\ Len(processed_uts) >= 2

RECURSIVE SumDurationsTo(_, _)
SumDurationsTo(l, n) ==
    IF n = 0 THEN 0 ELSE SumDurationsTo(l, n - 1) + (l[n].end - l[n].start)

\* sum of (end - start) over a list
SumDurations(l) == SumDurationsTo(l, Len(l))

\* C9 as stated: the merged intervals never sum to more than the originals.
C9_MergedTotalNotGreater ==
    mpc = "returned" => SumDurations(processed_uts) <= SumDurations(uts_arg)

\* C9: the merged total exceeds the original total by at most min_gap for
\* each absorbed utterance, and not at all when min_gap <= 0.
C9_MergedTotalWithinAbsorbedGaps ==
    mpc = "returned" =>
        SumDurations(processed_uts)
            <= SumDurations(uts_arg)
                 + (Len(uts_arg) - Len(processed_uts)) * Max(min_gap, 0)

C9_Witness ==
    /\ mpc = "returned"
    /\ Len(absorbed) >= 2
    /\ SumDurations(processed_uts) > SumDurations(uts_arg)

\* C10: an absorbed ut sets the accumulator's end to max(current.end, ut.end),
\* so that end never decreases; [{A,0,100},{A,150,300}] merges to {A,0,300}
\* for min_gap = 100 and is returned unchanged for min_gap = 10.
C10_AbsorbKeepsLaterEnd ==
    /\ \A k \in 1..Len(absorbed) :
          /\ absorbed[k].after = Max(absorbed[k].before, absorbed[k].ut.end)
          /\ absorbed[k].after >= absorbed[k].before
    /\ merge_utterances(<<Utterance("A", 0, 100), Utterance("A", 150, 300)>>, 100)
           = <<Utterance("A", 0, 300)>>
    /\ merge_utterances(<<Utterance("A", 0, 100), Utterance("A", 150, 300)>>, 10)
           = <<Utterance("A", 0, 100), Utterance("A", 150, 300)>>

\* number of occurrences of u in the list l
Occurrences(l, u) == Cardinality({k \in 1..Len(l) : l[k] = u})

\* the two lists hold the same elements the same number of times
SameElements(l1, l2) ==
    \A u \in SeqToSet(l1) \cup SeqToSet(l2) : Occurrences(l1, u) = Occurrences(l2, u)

StartsOf(l) == [k \in 1..Len(l) |-> l[k].start]

C13_ResultGapsAtLeastMinGap ==
    mpc = "returned" =>
        \A k \in 1..(Len(processed_uts) - 1) :
            processed_uts[k + 1].start - processed_uts[k].end >= min_gap

C13_Witness ==
    /\ mpc = "returned" /\ min_gap > 0
    /\ absorbed # <<>>
    /\ Len(processed_uts) >= 2

\* the ordered key pair of a relation
KeyPairOf(relation) == <<get_item_key(relation[1]), get_item_key(relation[2])>>

\* C14: two relations are counted in the same edge if and only if they have
\* the same ordered key pair; pairs keyed (A,B) and (B,A), A # B, are never
\* accumulated into the same edge.
C14_EdgePerOrderedKeyPair ==
    \A m \in 1..Len(counted_key) : \A n \in 1..Len(counted_key) :
        (counted_key[m] = counted_key[n])
            <=> (KeyPairOf(relations[m]) = KeyPairOf(relations[n]))

RECURSIVE SumCountsOver(_, _)
SumCountsOver(counts, keys) ==
    IF keys = {} THEN 0
    ELSE LET k == CHOOSE x \in keys : TRUE
         IN  counts[k].count + SumCountsOver(counts, keys \ {k})

\* sum of the counts of all edges of the dict
SumCounts(counts) == SumCountsOver(counts, DOMAIN counts)

\* C15: the counts of all edges sum to the number of relations counted so
\* far, and to the number of input pairs when count_relations returns.
C15_CountsSumToPairs ==
    /\ cpc \in {"count", "returned"} => SumCounts(relation_counts) = Len(counted_key)
    /\ cpc = "returned" => SumCounts(relation_counts) = Len(relations)

C15_Witness ==
    /\ cpc = "returned"
    /\ Len(relations) >= 3
    /\ Cardinality(DOMAIN relation_counts) = 2

\* the Affirmation condition stated on its own
AffirmationAsStated(earlier, later) ==
    /\ earlier.participant # later.participant
    /\ earlier.end - later.start > 250
    /\ later.end - later.start < 2000
    /\ earlier.end - later.end > 0

InterruptionAsStated(earlier, later) ==
    /\ earlier.participant # later.participant
    /\ earlier.end - later.start >= 1000
    /\ later.end - later.start >= 5000
    /\ later.end - earlier.end > 0

\* C17: the Interruption predicate holds exactly when the owners differ, the
\* overlap is at least 1000 ms, the later utterance lasts at least 5000 ms
\* and the earlier speaker stops first.
C17_InterruptionPredicate ==
    (pc = "returned" /\ is_related.kind = "is_interruption") =>
        SeqToSet(related_items)
            = {q \in PositionPairs(ordered_items) :
                  InterruptionAsStated(ordered_items[q[1]], ordered_items[q[2]])}

\* C18: no returned Affirmation or Interruption pair relates two utterances
\* of one participant, and the edges counted from the pairs by participant
\* have key1 # key2.
C18_NoSelfRelation ==
    pc = "returned" =>
        /\ \A k \in 1..Len(related_items) :
              ordered_items[related_items[k][1]].participant
                  # ordered_items[related_items[k][2]].participant
        /\ LET edges == relation_counts_of(ordered_items, related_items)
           IN  \A rk \in DOMAIN edges : edges[rk].key1 # edges[rk].key2

C18_Witness ==
    /\ pc = "returned"
    /\ related_items # <<>>
    /\ \E c \in 1..Len(related_calls) :
          /\ ordered_items[related_calls[c][1]].participant
                 = ordered_items[related_calls[c][2]].participant
          /\ ordered_items[related_calls[c][1]].end
                 - ordered_items[related_calls[c][2]].start > AFFIRMATION_MIN_OVERLAP

RECURSIVE SumTo(_, _)
SumTo(l, n) == IF n = 0 THEN 0 ELSE SumTo(l, n - 1) + l[n]

\* the sum of all bucket counts of the bucketer that runs
TotalBucketCount ==
    IF bucket_fn = "inc_bucket"
    THEN SumTo([k \in 1..Len(buckets) |-> buckets[k][2]], Len(buckets))
    ELSE SumTo(bucket_cnt, Len(bucket_cnt))

\* C19: the bucket counts sum to the number of values bucketed so far, and
\* to the number of values at the end of the pass.
C19_BucketsConserveValues ==
    /\ bpc \in {"loop", "returned"} => TotalBucketCount = Len(bucket_hit)
    /\ bpc = "returned" => TotalBucketCount = Len(values)

\* the value is under no boundary of the bucketer that runs
UnderNoBoundary(v) ==
    IF bucket_fn = "inc_bucket"
    THEN v >= meeting_duration_distribution[Len(meeting_duration_distribution)][1]
    ELSE v > duration_buckets[Len(duration_buckets)]

\* position (from 1) of the trailing count of the bucketer that runs
TrailingBucket ==
    IF bucket_fn = "inc_bucket"
    THEN Len(meeting_duration_distribution)
    ELSE Len(duration_buckets) + 1

\* C20: a value under no boundary increments the trailing bucket and is not
\* left uncounted.
C20_OverflowCounted ==
    \A k \in 1..Len(bucket_hit) :
        UnderNoBoundary(values[k]) => bucket_hit[k] = TrailingBucket

\* C21: the counts list _distribute_durations returns is exactly one element
\* longer than its buckets list, whatever the durations, the last element
\* being the count of the durations over every bucket.
C21_CountsOneLongerThanBuckets ==
    (bpc = "returned" /\ bucket_fn = "_distribute_durations")
        => Len(bucket_cnt) = Len(duration_buckets) + 1

\* C22: the pairs of the result are in the order of their later element's
\* position, and pairs with the same later element are in the order of
\* their earlier element's position.
C22_OutputOrdered ==
    \A k \in 1..Len(related_items) : \A l \in (k + 1)..Len(related_items) :
        \/ related_items[k][2] < related_items[l][2]
        \/ /\ related_items[k][2] = related_items[l][2]
           /\ related_items[k][1] < related_items[l][1]

C22_Witness ==
    /\ pc = "returned" /\ is_possibly_related.kind # "None"
    /\ \E k \in 1..(Len(related_items) - 1) :
          related_items[k][2] = related_items[k + 1][2]
    /\ \E k \in 1..(Len(related_items) - 1) :
          related_items[k][2] < related_items[k + 1][2]

NoDuplicates(l) == \A k \in 1..Len(l) : \A m \in 1..Len(l) : k # m => l[k] # l[m]

IsPrefix(p, l) == Len(p) <= Len(l) /\ SubSeq(l, 1, Len(p)) = p

\* C23: every step of the call leaves the pairs appended so far at the head
\* of related_items (none is removed or changed) and leaves no position
\* pair in it twice.
C23_EmittedOnceAppendOnly ==
    [][IsPrefix(related_items, related_items') /\ NoDuplicates(related_items')]_vars

C23_Witness ==
    /\ pc = "returned"
    /\ Len(related_items) >= 2
    /\ Len(related_items) < Len(related_calls)

\* a call of a log is the one on which the predicate raises
IsFailedCall(pred, call) ==
    Raises(predicate_failure, pred, ordered_items[call[1]], ordered_items[call[2]])

\* some call of is_related or is_possibly_related made so far has raised
PredicateFailed ==
    \/ \E c \in 1..Len(related_calls) : IsFailedCall("is_related", related_calls[c])
    \/ \E c \in 1..Len(possibly_calls) :
          IsFailedCall("is_possibly_related", possibly_calls[c])

\* C24: when a call of is_related or is_possibly_related raises, the call of
\* compute_pairwise_relations ends by raising that same error; it does not
\* return, so the pairs found before are not delivered.
C24_PredicateErrorAborts ==
    PredicateFailed =>
        /\ pc = "raised"
        /\ error = predicate_failure.error

C24_Witness ==
    /\ PredicateFailed
    /\ pc = "raised" /\ error = "KeyError"
    /\ related_items # <<>>

\* the durations among the first n of the list that lie in bucket i (from 1):
\* over the previous bucket maximum, if any, and not over its own
DurationsInBucket(i, n) ==
    {k \in 1..n :
        /\ values[k] <= duration_buckets[i]
        /\ i > 1 => values[k] > duration_buckets[i - 1]}

\* C25: for a sorted list of durations, every count of _distribute_durations
\* that stands for a bucket (not the one after the last bucket) is the number
\* of durations over the previous bucket maximum and not over its own, while
\* the list is walked and when it is returned.
C25_CountsMatchInclusiveBuckets ==
    (bucket_fn = "_distribute_durations" /\ bpc \in {"loop", "returned"}) =>
        \A i \in 1..Len(bucket_cnt) :
            i <= Len(duration_buckets)
                => bucket_cnt[i] = Cardinality(DurationsInBucket(i, Len(bucket_hit)))

C25_Witness ==
    /\ bucket_fn = "_distribute_durations" /\ bpc = "returned"
    /\ Len(values) = MaxValues
    /\ \E i \in 2..Len(bucket_cnt) :
          /\ i <= Len(duration_buckets)
          /\ bucket_cnt[i] >= 2
          /\ \E k \in 1..Len(values) : values[k] = duration_buckets[i]
    /\ \E i \in 2..Len(bucket_cnt) : bucket_cnt[i] = 0

\* the pruning predicate rejected the candidate of its c-th call
RejectedAt(c) ==
    ~ApplyPossiblyRelated(is_possibly_related, ordered_items[possibly_calls[c][1]],
                          ordered_items[possibly_calls[c][2]])

\* C26: a candidate the pruning predicate rejected for a test item is in no
\* call of is_related for that or a later test item and in no other call of
\* is_possibly_related for that or a later test item; after each iteration
\* the last candidate is the test item of that iteration.
C26_PrunedNeverRetested ==
    /\ \A c \in 1..Len(possibly_calls) :
          RejectedAt(c) =>
              LET j == possibly_calls[c][1]
                  i == possibly_calls[c][2]
              IN  /\ \A r \in 1..Len(related_calls) :
                        ~(related_calls[r][1] = i /\ related_calls[r][2] >= j)
                  /\ \A d \in 1..Len(possibly_calls) :
                        d # c => ~(possibly_calls[d][2] = i /\ possibly_calls[d][1] >= j)
    /\ (pc \in {"sweep", "returned"} /\ tested # <<>>) =>
          /\ candidate_items # <<>>
          /\ candidate_items[Len(candidate_items)] = tested[Len(tested)]

C26_Witness ==
    /\ pc = "returned" /\ Len(ordered_items) = 3
    /\ \E c \in 1..Len(possibly_calls) : RejectedAt(c) /\ possibly_calls[c][1] = 2
    /\ related_items = <<>>
    /\ candidate_items[Len(candidate_items)] = 3

\* a single pass: the test items so far are the positions 2, 3, ... in order,
\* all of them when the call returns; is_related is called at most once per
\* position pair i < j, and exactly once per pair without a pruning predicate
SinglePass ==
    /\ tested = [k \in 1..Len(tested) |-> k + 1]
    /\ Len(tested) <= Max(Len(ordered_items) - 1, 0)
    /\ pc = "returned" => Len(tested) = Len(ordered_items) - 1
    /\ NoDuplicates(related_calls)
    /\ SeqToSet(related_calls) \subseteq PositionPairs(ordered_items)
    /\ (pc = "returned" /\ is_possibly_related.kind = "None") =>
          /\ SeqToSet(related_calls) = PositionPairs(ordered_items)
          /\ 2 * Len(related_calls) = Len(ordered_items) * (Len(ordered_items) - 1)

\* C28: the call is a single pass (every position after the first is test
\* item once, in order; n(n-1)/2 calls of is_related without a pruning
\* predicate, at most one per position pair with one) and it ends.
C28_SinglePassTerminates ==
    []SinglePass /\ <>(pc \in {"returned", "raised"})

C28_Witness ==
    /\ pc = "returned" /\ is_possibly_related.kind = "None"
    /\ Len(ordered_items) = 3 /\ Len(related_calls) = 3

\* C27: for a meeting of one minute or more, the bucket computed for each of
\* its utterances of duration 0 is in 0..49, so that the increment stays
\* inside the list of 50 counts, also for an utterance that starts exactly
\* at the meeting end.
C27_BucketIndexInRange ==
    /\ \A k \in 1..Len(ut_buckets) :
          /\ ut_buckets[k].bucket >= 0
          /\ ut_buckets[k].bucket <= num_buckets - 1
    /\ zerror = ""

C27_Witness ==
    /\ zpc = "returned"
    /\ \E k \in 1..Len(ut_buckets) :
          /\ ut_buckets[k].ut.start = ut_buckets[k].meeting_end
          /\ ut_buckets[k].meeting_end - ut_buckets[k].meeting_start = timedelta_minute
          /\ ut_buckets[k].bucket = num_buckets - 1
          /\ distributions[num_buckets] >= 1

\* the position pairs of the list that the catalog relation kind relates
CatalogPairs(kind) ==
    {q \in PositionPairs(ordered_items) :
        ApplyRelated([kind |-> kind], ordered_items[q[1]], ordered_items[q[2]])}

\* C29: no pair of utterances is both an Affirmation and an Interruption:
\* a pair returned by the sweep for one of the two relations is not a pair
\* of the other.
C29_AffirmationInterruptionExclusive ==
    pc = "returned" =>
        /\ is_related.kind = "is_affirmation"
              => SeqToSet(related_items) \cap CatalogPairs("is_interruption") = {}
        /\ is_related.kind = "is_interruption"
              => SeqToSet(related_items) \cap CatalogPairs("is_affirmation") = {}

\* C30: every edge of relation_counts holds the keys of the earlier and the
\* later item of every relation counted into it, and a count of at least 1.
C30_EdgeKeysMatchCountedRelations ==
    /\ \A k \in 1..Len(counted_key) :
          /\ relation_counts[counted_key[k]].key1 = get_item_key(relations[k][1])
          /\ relation_counts[counted_key[k]].key2 = get_item_key(relations[k][2])
    /\ \A rk \in DOMAIN relation_counts : relation_counts[rk].count >= 1

====
